---- MODULE Spec2Model ----
(***************************************************************************)
(* formik-migrate: the analyzer (FormikAnalyzer), the transformer          *)
(* (SafeTransformer) and the body of the convert command's per-file loop.  *)
(*                                                                         *)
(* A file is the sequence of the syntax nodes the visitors look at, in     *)
(* document order: import declarations, call expressions and JSX elements. *)
(* Expressions the code never inspects are opaque tokens (sequences of     *)
(* strings), so that "value unchanged" and "wrapped in yupResolver(...)"   *)
(* are distinguishable.                                                    *)
(***************************************************************************)
EXTENDS Integers, Sequences, FiniteSets, TLC

VARIABLES
  src,        \* the file handed to the tool: [parses, nodes, lines]
  options,    \* the convert command's flags: [dryRun, backup]
  pc,         \* position in the run
  analysis,   \* FileAnalysis of the file (hasFormik, patterns)
  result,     \* ConversionResult of transformFile
  disk,       \* the nodes the file holds on disk
  backupFile, \* <file>.backup: [exists, nodes]
  codebase,   \* the files the glob matches, in glob order
  run,        \* the convert command over the codebase: phase, loop counters,
              \* analyses returned and kept, the aggregate, the files written
  watch       \* watchDirectory's closure: debounceTimer, isAnalyzing, watchers,
              \* the analysis awaited, the callbacks invoked

vars == <<src, options, pc, analysis, result, disk, backupFile, codebase, run, watch>>

----------------------------------------------------------------------------
(* Bounds *)

MaxProps == 4
MaxSpecs == 2
MaxAttrs == 2
MaxNodes == 3
MaxFiles == 3
MaxReports == 2
MaxEvents == 3

----------------------------------------------------------------------------
(* Generic helpers *)

SeqsUpTo(S, n) == UNION {[1..k -> S] : k \in 0..n}

Range(s) == {s[i] : i \in DOMAIN s}

RECURSIVE Flatten(_)
Flatten(ss) == IF ss = <<>> THEN <<>> ELSE Head(ss) \o Flatten(Tail(ss))

Count(s, x) == Cardinality({i \in DOMAIN s : s[i] = x})

----------------------------------------------------------------------------
(* Syntax nodes *)

\* ---- object-literal properties of a useFormik configuration
IdProp(k)     == [type |-> "ObjectProperty", keyType |-> "Identifier",
                  key |-> k, value |-> <<k \o "_expr">>]
StrProp(k)    == [type |-> "ObjectProperty", keyType |-> "StringLiteral",
                  key |-> k, value |-> <<k \o "_expr">>]
MethodProp(k) == [type |-> "ObjectMethod", keyType |-> "Identifier",
                  key |-> k, value |-> <<k \o "_body">>]
SpreadProp    == [type |-> "SpreadElement", keyType |-> "none",
                  key |-> "", value |-> <<"rest">>]

\* ---- call expressions
ObjCall(ps) == [kind |-> "call", calleeType |-> "Identifier", callee |-> "useFormik",
                argType |-> "ObjectExpression", props |-> ps]
IdentCall   == [kind |-> "call", calleeType |-> "Identifier", callee |-> "useFormik",
                argType |-> "Identifier", props |-> <<>>]
NoArgCall   == [kind |-> "call", calleeType |-> "Identifier", callee |-> "useFormik",
                argType |-> "none", props |-> <<>>]
OtherCall   == [kind |-> "call", calleeType |-> "Identifier", callee |-> "useState",
                argType |-> "none", props |-> <<>>]

\* ---- import declarations
NamedSpec(n)     == [type |-> "ImportSpecifier", imported |-> n, local |-> n]
DefaultSpec(n)   == [type |-> "ImportDefaultSpecifier", imported |-> "", local |-> n]
NamespaceSpec(n) == [type |-> "ImportNamespaceSpecifier", imported |-> "", local |-> n]
Import(s, sp)    == [kind |-> "import", source |-> s, specifiers |-> sp]

\* ---- JSX attributes and elements
StrAttr(n, v) == [type |-> "JSXAttribute", name |-> n,
                  valueType |-> "StringLiteral", value |-> <<v>>]
ExprAttr(n)   == [type |-> "JSXAttribute", name |-> n,
                  valueType |-> "JSXExpressionContainer", value |-> <<n \o "_expr">>]
SpreadAttr    == [type |-> "JSXSpreadAttribute", name |-> "",
                  valueType |-> "Identifier", value |-> <<"props">>]
\* what the parser yields: selfClosing exactly when there is no closing tag,
\* and a self-closed element has no children
Elem(tag, as, closed, kids) ==
  [kind |-> "jsx", tag |-> tag, attrs |-> as,
   selfClosing |-> ~closed, hasClosing |-> closed, children |-> kids]

IsImport(n) == n.kind = "import"
IsCall(n)   == n.kind = "call"
IsJsx(n)    == n.kind = "jsx"

----------------------------------------------------------------------------
(* FormikAnalyzer (src/src/reporter/index.ts) *)

\* p => ObjectProperty with an Identifier key ? key.name : ''
PropName(p) ==
  IF p.type = "ObjectProperty" /\ p.keyType = "Identifier" THEN p.key ELSE ""

PropNames(ps) == [i \in DOMAIN ps |-> PropName(ps[i])]

simpleProps  == {"initialValues", "onSubmit", "validationSchema"}
complexProps == {"validate", "validateOnChange", "validateOnBlur", "enableReinitialize"}

SimpleMaxProps == 3

IsUseFormikCall(n) ==
  IsCall(n) /\ n.calleeType = "Identifier" /\ n.callee = "useFormik"

analyzeUseFormikComplexity(call) ==
  IF call.argType # "ObjectExpression" THEN "complex"
  ELSE LET props == PropNames(call.props)
           hasOnlySimpleProps ==
             \A i \in DOMAIN props : props[i] \in simpleProps \/ props[i] = ""
           hasComplexProps == \E i \in DOMAIN props : props[i] \in complexProps
       IN IF hasOnlySimpleProps /\ Len(props) <= SimpleMaxProps THEN "simple"
          ELSE IF hasComplexProps THEN "complex"
          ELSE "medium"

getComplexityReason(call) ==
  IF call.argType # "ObjectExpression" THEN "Non-standard configuration object"
  ELSE LET names == Range(PropNames(call.props))
       IN IF "validate" \in names
            THEN "Custom validate function (convert to Zod/Yup)"
          ELSE IF "enableReinitialize" \in names
            THEN "Uses enableReinitialize (different pattern in RHF)"
          ELSE IF "validateOnChange" \in names \/ "validateOnBlur" \in names
            THEN "Custom validation triggers (adjust mode in RHF)"
          ELSE "Complex configuration needs review"

\* a JSXAttribute whose JSXIdentifier name is one of `names`
HasAttrNamed(attrs, names) ==
  \E i \in DOMAIN attrs : attrs[i].type = "JSXAttribute" /\ attrs[i].name \in names

analyzeFormikComponentComplexity(el) ==
  IF HasAttrNamed(el.attrs, {"render", "children", "component"}) THEN "medium"
  ELSE IF HasAttrNamed(el.attrs, {"validate", "validateOnChange", "validateOnBlur"})
    THEN "complex"
  ELSE "simple"

FieldFamily == {"Field", "FastField", "FieldArray"}

Pattern(ty, loc, cx, auto, why) ==
  [type |-> ty, location |-> loc, complexity |-> cx, canAutoConvert |-> auto,
   hasReason |-> (why # ""), reason |-> why]

\* the visitors with the <Formik> pattern's canAutoConvert taken from "not complex"
NodePatterns_FormikNotComplex(n, i) ==
  IF IsUseFormikCall(n) THEN
    LET cx == analyzeUseFormikComplexity(n)
    IN <<Pattern("useFormik", i, cx, cx = "simple",
                 IF cx # "simple" THEN getComplexityReason(n) ELSE "")>>
  ELSE IF IsJsx(n) /\ n.tag = "Formik" THEN
    LET cx == analyzeFormikComponentComplexity(n)
    IN <<Pattern("Formik", i, cx, cx # "complex",
                 IF cx # "simple" THEN "Complex render patterns need manual review"
                 ELSE "")>>
  ELSE IF IsJsx(n) /\ n.tag \in FieldFamily THEN
    LET hasCustomRender == HasAttrNamed(n.attrs, {"render", "component", "children"})
    IN <<Pattern(n.tag, i, IF hasCustomRender THEN "medium" ELSE "simple",
                 ~hasCustomRender,
                 IF hasCustomRender
                   THEN "Custom render/component prop needs adjustment" ELSE "")>>
  ELSE <<>>

\* the patterns the three visitors push for the node at position i
NodePatterns(n, i) ==
  IF IsUseFormikCall(n) THEN
    LET cx == analyzeUseFormikComplexity(n)
    IN <<Pattern("useFormik", i, cx, cx = "simple",
                 IF cx # "simple" THEN getComplexityReason(n) ELSE "")>>
  ELSE IF IsJsx(n) /\ n.tag = "Formik" THEN
    LET cx == analyzeFormikComponentComplexity(n)
    IN <<Pattern("Formik", i, cx, cx = "simple",
                 IF cx # "simple" THEN "Complex render patterns need manual review"
                 ELSE "")>>
  ELSE IF IsJsx(n) /\ n.tag \in FieldFamily THEN
    LET hasCustomRender == HasAttrNamed(n.attrs, {"render", "component", "children"})
    IN <<Pattern(n.tag, i, IF hasCustomRender THEN "medium" ELSE "simple",
                 ~hasCustomRender,
                 IF hasCustomRender
                   THEN "Custom render/component prop needs adjustment" ELSE "")>>
  ELSE <<>>

calculateEffort(patterns, linesOfCode) ==
  LET complexCount ==
        Cardinality({k \in DOMAIN patterns : patterns[k].complexity = "complex"})
      mediumCount ==
        Cardinality({k \in DOMAIN patterns : patterns[k].complexity = "medium"})
  IN IF complexCount > 2 \/ linesOfCode > 500 THEN "high"
     ELSE IF complexCount > 0 \/ mediumCount > 3 \/ linesOfCode > 200 THEN "medium"
     ELSE "low"

\* analyzeFile whose catch block keeps the line count of the text it read
analyzeFile_KeepsLines(file) ==
  IF ~file.parses
    THEN [hasFormik |-> FALSE, patterns |-> <<>>,
          linesOfCode |-> file.lines, estimatedEffort |-> "low"]
    ELSE LET patterns == Flatten([i \in DOMAIN file.nodes |->
                                    NodePatterns(file.nodes[i], i)])
         IN [hasFormik |-> \E i \in DOMAIN file.nodes :
                             IsImport(file.nodes[i]) /\ file.nodes[i].source = "formik",
             patterns  |-> patterns,
             linesOfCode |-> file.lines,
             estimatedEffort |-> calculateEffort(patterns, file.lines)]

\* the file has been read; the parse and the traversal are inside the try
analyzeFile(file) ==
  IF ~file.parses
    THEN [hasFormik |-> FALSE, patterns |-> <<>>,
          linesOfCode |-> 0, estimatedEffort |-> "low"]
    ELSE LET patterns == Flatten([i \in DOMAIN file.nodes |->
                                    NodePatterns(file.nodes[i], i)])
         IN [hasFormik |-> \E i \in DOMAIN file.nodes :
                             IsImport(file.nodes[i]) /\ file.nodes[i].source = "formik",
             patterns  |-> patterns,
             linesOfCode |-> file.lines,
             estimatedEffort |-> calculateEffort(patterns, file.lines)]

----------------------------------------------------------------------------
(* SafeTransformer (src/src/index.ts) *)

safeProps   == {"initialValues", "onSubmit", "validationSchema"}
unsafeProps == {"validate", "validateOnChange", "validateOnBlur", "enableReinitialize"}

\* isSafeUseFormik without the object-literal test
isSafeUseFormik_NoShapeCheck(call) ==
  LET props == PropNames(call.props)
      hasUnsafe == \E i \in DOMAIN props : props[i] \in unsafeProps
      hasOnlyAllowed ==
        \A i \in DOMAIN props : props[i] \in safeProps \/ props[i] = ""
  IN ~hasUnsafe /\ hasOnlyAllowed

isSafeUseFormik(call) ==
  IF call.argType # "ObjectExpression" THEN FALSE
  ELSE LET props == PropNames(call.props)
           hasUnsafe == \E i \in DOMAIN props : props[i] \in unsafeProps
           hasOnlyAllowed ==
             \A i \in DOMAIN props : props[i] \in safeProps \/ props[i] = ""
       IN ~hasUnsafe /\ hasOnlyAllowed

isSafeField(el) ==
  ~HasAttrNamed(el.attrs, {"render", "component", "children", "as"})

\* one specifier of a formik import: the specifiers pushed to newSpecifiers
transformSpecifier(spec) ==
  IF spec.type = "ImportSpecifier" THEN
    IF spec.imported = "useFormik" THEN <<NamedSpec("useForm")>>
    ELSE IF spec.imported = "Formik" THEN <<>>
    ELSE IF spec.imported = "Field" THEN <<>>
    ELSE <<spec>>
  ELSE <<>>

transformImports(imp) ==
  [imp EXCEPT !.source = "react-hook-form",
              !.specifiers = Flatten([i \in DOMAIN imp.specifiers |->
                                        transformSpecifier(imp.specifiers[i])])]

YupWarning == "Add: import { yupResolver } from \"@hookform/resolvers/yup\""

\* one property of the configuration: what is pushed to newProps, and warnings
transformProp(prop) ==
  IF prop.type = "ObjectProperty" /\ prop.keyType = "Identifier" THEN
    IF prop.key = "initialValues" THEN
      [props |-> <<[type |-> "ObjectProperty", keyType |-> "Identifier",
                    key |-> "defaultValues", value |-> prop.value]>>,
       warnings |-> <<>>]
    ELSE IF prop.key = "validationSchema" THEN
      [props |-> <<[type |-> "ObjectProperty", keyType |-> "Identifier",
                    key |-> "resolver", value |-> <<"yupResolver">> \o prop.value]>>,
       warnings |-> <<YupWarning>>]
    ELSE [props |-> <<prop>>, warnings |-> <<>>]
  ELSE [props |-> <<>>, warnings |-> <<>>]

transformUseFormik(call) ==
  IF call.argType # "ObjectExpression"
    THEN [node |-> call, warnings |-> <<>>]
    ELSE LET each == [i \in DOMAIN call.props |-> transformProp(call.props[i])]
         IN [node |-> [call EXCEPT
                         !.props = Flatten([i \in DOMAIN each |-> each[i].props]),
                         !.callee = "useForm"],
             warnings |-> Flatten([i \in DOMAIN each |-> each[i].warnings])]

\* the value of the last attribute `name` that holds a string literal, or dflt
RECURSIVE LastStringAttr(_, _, _)
LastStringAttr(attrs, name, dflt) ==
  IF attrs = <<>> THEN dflt
  ELSE LET a == attrs[Len(attrs)]
       IN IF a.type = "JSXAttribute" /\ a.name = name /\ a.valueType = "StringLiteral"
            THEN a.value[1]
            ELSE LastStringAttr(SubSeq(attrs, 1, Len(attrs) - 1), name, dflt)

NoNameWarning == "Field without name - skipped"

\* transformField without the early return for a missing name
transformField_NoSkip(el) ==
  LET nameValue == LastStringAttr(el.attrs, "name", "")
      typeValue == LastStringAttr(el.attrs, "type", "text")
  IN [node |-> [el EXCEPT
                  !.tag = "input",
                  !.hasClosing = FALSE,
                  !.attrs = <<[type |-> "JSXSpreadAttribute", name |-> "",
                               valueType |-> "CallExpression",
                               value |-> <<"register", nameValue>>],
                              StrAttr("type", typeValue)>>],
      warnings |-> <<>>]

transformField(el) ==
  LET nameValue == LastStringAttr(el.attrs, "name", "")   \* null and '' are both falsy
      typeValue == LastStringAttr(el.attrs, "type", "text")
  IN IF nameValue = ""
       THEN [node |-> el, warnings |-> <<NoNameWarning>>]
       ELSE [node |-> [el EXCEPT
                         !.tag = "input",
                         !.hasClosing = FALSE,
                         !.attrs = <<[type |-> "JSXSpreadAttribute", name |-> "",
                                      valueType |-> "CallExpression",
                                      value |-> <<"register", nameValue>>],
                                     StrAttr("type", typeValue)>>],
             warnings |-> <<>>]

UnsafeWarning == "Complex useFormik pattern detected - skipping auto-conversion"
ComplexFieldWarning == "Complex <Field> pattern - needs manual review"
ImportChange == "Updated imports from formik to react-hook-form"
HookChange   == "Converted useFormik() to useForm()"
FieldChange  == "Converted <Field> to native input with register()"

ConversionResult(ok, hasCode, code, err, ws, cs) ==
  [returned |-> TRUE, success |-> ok, hasCode |-> hasCode, convertedCode |-> code,
   hasError |-> (err # ""), error |-> err, warnings |-> ws, changes |-> cs]

NoResult ==
  [returned |-> FALSE, success |-> FALSE, hasCode |-> FALSE, convertedCode |-> <<>>,
   hasError |-> FALSE, error |-> "", warnings |-> <<>>, changes |-> <<>>]

\* first pass: the warnings pushed by the CallExpression visitor for one node
firstPassVisit(n) ==
  IF IsUseFormikCall(n) /\ ~isSafeUseFormik(n) THEN <<UnsafeWarning>> ELSE <<>>

\* second pass: the three visitors applied to one node
secondPassVisit(n) ==
  IF IsImport(n) /\ n.source = "formik" THEN
    [node |-> transformImports(n), warnings |-> <<>>, changes |-> <<ImportChange>>]
  ELSE IF IsUseFormikCall(n) THEN
    LET r == transformUseFormik(n)
    IN [node |-> r.node, warnings |-> r.warnings, changes |-> <<HookChange>>]
  ELSE IF IsJsx(n) /\ n.tag = "Field" THEN
    IF isSafeField(n) THEN
      LET r == transformField(n)
      IN [node |-> r.node, warnings |-> r.warnings, changes |-> <<FieldChange>>]
    ELSE [node |-> n, warnings |-> <<ComplexFieldWarning>>, changes |-> <<>>]
  ELSE [node |-> n, warnings |-> <<>>, changes |-> <<>>]

\* transformFile with the second pass run whatever the first pass found
transformFile_NoAbort(file) ==
  IF ~file.parses
    THEN ConversionResult(FALSE, FALSE, <<>>, "Parse error", <<>>, <<>>)
    ELSE
      LET nodes == file.nodes
          unsafeWarnings == Flatten([i \in DOMAIN nodes |-> firstPassVisit(nodes[i])])
          each == [i \in DOMAIN nodes |-> secondPassVisit(nodes[i])]
      IN ConversionResult(TRUE, TRUE,
                          [i \in DOMAIN nodes |-> each[i].node], "",
                          unsafeWarnings
                            \o Flatten([i \in DOMAIN nodes |-> each[i].warnings]),
                          Flatten([i \in DOMAIN nodes |-> each[i].changes]))

\* transformFile returning the second pass's text along with the failure
transformFile_CodeOnFailure(file) ==
  IF ~file.parses
    THEN ConversionResult(FALSE, FALSE, <<>>, "Parse error", <<>>, <<>>)
    ELSE
      LET nodes == file.nodes
          unsafeWarnings == Flatten([i \in DOMAIN nodes |-> firstPassVisit(nodes[i])])
          hasUnsafePatterns == unsafeWarnings # <<>>
          each == [i \in DOMAIN nodes |-> secondPassVisit(nodes[i])]
      IN IF hasUnsafePatterns
           THEN ConversionResult(FALSE, TRUE, [i \in DOMAIN nodes |-> each[i].node],
                                 "File contains complex patterns that need manual review",
                                 unsafeWarnings, <<>>)
           ELSE ConversionResult(TRUE, TRUE,
                                 [i \in DOMAIN nodes |-> each[i].node], "",
                                 Flatten([i \in DOMAIN nodes |-> each[i].warnings]),
                                 Flatten([i \in DOMAIN nodes |-> each[i].changes]))

transformFile(file) ==
  IF ~file.parses
    THEN ConversionResult(FALSE, FALSE, <<>>, "Parse error", <<>>, <<>>)
    ELSE
      LET nodes == file.nodes
          unsafeWarnings == Flatten([i \in DOMAIN nodes |-> firstPassVisit(nodes[i])])
          hasUnsafePatterns == unsafeWarnings # <<>>
          each == [i \in DOMAIN nodes |-> secondPassVisit(nodes[i])]
      IN IF hasUnsafePatterns
           THEN ConversionResult(FALSE, FALSE, <<>>,
                                 "File contains complex patterns that need manual review",
                                 unsafeWarnings, <<>>)
           ELSE ConversionResult(TRUE, TRUE,
                                 [i \in DOMAIN nodes |-> each[i].node], "",
                                 Flatten([i \in DOMAIN nodes |-> each[i].warnings]),
                                 Flatten([i \in DOMAIN nodes |-> each[i].changes]))

----------------------------------------------------------------------------
(* The files and options the run is started with *)

PropAlphabet ==
  {IdProp("initialValues"), IdProp("onSubmit"), IdProp("validationSchema"),
   IdProp("validate"), IdProp("onReset"), SpreadProp}

HookCalls ==
  {ObjCall(ps) : ps \in SeqsUpTo(PropAlphabet, MaxProps)}
  \cup {IdentCall, NoArgCall,
        ObjCall(<<IdProp("initialValues"), MethodProp("validate")>>),
        ObjCall(<<StrProp("validate"), IdProp("onSubmit")>>),
        ObjCall(<<IdProp("enableReinitialize"), IdProp("initialValues")>>),
        ObjCall(<<IdProp("validateOnBlur"), IdProp("validateOnChange")>>),
        ObjCall(<<IdProp("enableReinitialize"), IdProp("validate")>>),
        ObjCall(<<IdProp("validateOnChange"), IdProp("enableReinitialize")>>)}

SpecAlphabet ==
  {NamedSpec("useFormik"), NamedSpec("Field"), NamedSpec("Formik"), NamedSpec("Form"),
   DefaultSpec("Field"), NamespaceSpec("formik")}

\* import syntax: an optional default first, then a namespace or named specifiers
ValidSpecifiers(sp) ==
  /\ \A i \in DOMAIN sp : sp[i].type = "ImportDefaultSpecifier" => i = 1
  /\ \A i \in DOMAIN sp : sp[i].type = "ImportNamespaceSpecifier" =>
       /\ i = Len(sp)
       /\ \A j \in 1..(i - 1) : sp[j].type = "ImportDefaultSpecifier"

ImportDecls ==
  {Import(s, sp) : s \in {"formik", "react"},
                   sp \in {x \in SeqsUpTo(SpecAlphabet, MaxSpecs) : ValidSpecifiers(x)}}

AttrAlphabet ==
  {StrAttr("name", "email"), StrAttr("name", ""), ExprAttr("name"),
   StrAttr("type", "password"), ExprAttr("type"), ExprAttr("render"),
   StrAttr("as", "select"), StrAttr("className", "x"), SpreadAttr}

FieldElems ==
  {Elem("Field", as, c[1], c[2]) :
     as \in SeqsUpTo(AttrAlphabet, MaxAttrs),
     c \in {<<FALSE, FALSE>>, <<TRUE, FALSE>>, <<TRUE, TRUE>>}}

FormikAttrAlphabet ==
  {ExprAttr("initialValues"), ExprAttr("onSubmit"), ExprAttr("render"),
   ExprAttr("component"), ExprAttr("validate"), ExprAttr("validateOnBlur"), SpreadAttr}

FormikElems ==
  {Elem("Formik", as, TRUE, TRUE) : as \in SeqsUpTo(FormikAttrAlphabet, MaxAttrs)}

StdImport == Import("formik", <<NamedSpec("useFormik"), NamedSpec("Field")>>)
StdCall   == ObjCall(<<IdProp("initialValues"), IdProp("onSubmit")>>)
StdField  == Elem("Field", <<StrAttr("name", "email")>>, FALSE, FALSE)

SmallNodes ==
  {Import("formik", <<NamedSpec("useFormik"), NamedSpec("Field"), NamedSpec("Formik")>>),
   Import("react", <<DefaultSpec("React")>>),
   ObjCall(<<IdProp("initialValues"), IdProp("validationSchema"), IdProp("onSubmit")>>),
   ObjCall(<<IdProp("initialValues"), IdProp("onSubmit"), IdProp("validate")>>),
   OtherCall,
   Elem("Field", <<StrAttr("name", "email"), StrAttr("type", "email")>>, FALSE, FALSE),
   Elem("Field", <<StrAttr("name", "color")>>, TRUE, TRUE),
   Elem("Field", <<StrAttr("name", "email"), ExprAttr("component")>>, FALSE, FALSE),
   Elem("Formik", <<ExprAttr("initialValues"), ExprAttr("onSubmit")>>, TRUE, TRUE),
   Elem("FastField", <<StrAttr("name", "email")>>, FALSE, FALSE)}

Files ==
  {<<StdImport, c, StdField>> : c \in HookCalls}
  \cup {<<i, StdCall, Elem("Field", <<ExprAttr("name")>>, FALSE, FALSE)>> : i \in ImportDecls}
  \cup {<<StdImport, StdCall, e>> : e \in FieldElems}
  \cup {<<StdImport, e>> : e \in FormikElems}
  \cup SeqsUpTo(SmallNodes, MaxNodes)

\* code.split('\n').length of a file written one node per group of lines
LinesOf(f) == 12 * Len(f) + 1

Sources ==
  {[parses |-> TRUE, nodes |-> f, lines |-> LinesOf(f)] : f \in Files}
  \cup {[parses |-> FALSE, nodes |-> <<>>, lines |-> 5]}

----------------------------------------------------------------------------
(* The run: analyze, then the convert command's loop body for the file;    *)
(* or a direct call of the exported SafeTransformer.transformFile.         *)

NoAnalysis == [done |-> FALSE, hasFormik |-> FALSE, patterns |-> <<>>,
               linesOfCode |-> 0, estimatedEffort |-> "low"]

\* no watcher
NoWatch == [watching |-> FALSE]

\* the codebase run before the command starts
NoAggregate == [done |-> FALSE]

NoRun ==
  [phase |-> "idle", i |-> 0, returned |-> <<>>, files |-> <<>>,
   aggregate |-> NoAggregate, j |-> 0, passed |-> {}, converted |-> 0,
   skipped |-> 0, allWarnings |-> <<>>, written |-> {}, backedUp |-> {},
   prompted |-> FALSE, confirmed |-> FALSE, fsLog |-> <<>>, rendered |-> <<>>]

Init ==
  /\ src \in Sources
  /\ options \in [dryRun : BOOLEAN, backup : BOOLEAN]
  /\ pc = "start"
  /\ analysis = NoAnalysis
  /\ result = NoResult
  /\ disk = src.nodes
  /\ backupFile = [exists |-> FALSE, nodes |-> <<>>]
  /\ codebase = <<>>
  /\ run = NoRun
  /\ watch = NoWatch

\* analyzeCodebase: analyzeFile on the file
Analyze ==
  /\ pc = "start"
  /\ analysis' = [done |-> TRUE] @@ analyzeFile(src)
  /\ pc' = "analyzed"
  /\ UNCHANGED <<src, options, result, disk, backupFile, codebase, run, watch>>

\* the file is kept in analysis.files and has an auto-convertible pattern
hasAutoConvertible ==
  /\ analysis.hasFormik
  /\ \E i \in DOMAIN analysis.patterns : analysis.patterns[i].canAutoConvert

\* convert: no auto-convertible pattern (the early exit, or the loop's continue)
Skip ==
  /\ pc = "analyzed"
  /\ ~hasAutoConvertible
  /\ pc' = "skipped"
  /\ UNCHANGED <<src, options, analysis, result, disk, backupFile, codebase, run, watch>>

\* convert: transformer.transformFile(file.filePath)
Transform ==
  /\ pc = "analyzed"
  /\ hasAutoConvertible
  /\ result' = transformFile(src)
  /\ pc' = "transformed"
  /\ UNCHANGED <<src, options, analysis, disk, backupFile, codebase, run, watch>>

\* convert: result.success && result.convertedCode (the generated text of a
\* file that holds a pattern is never the empty string), then backup and write
Write ==
  /\ pc = "transformed"
  /\ result.success /\ result.hasCode
  /\ IF options.dryRun
       THEN UNCHANGED <<disk, backupFile>>
       ELSE /\ backupFile' = IF options.backup
                               THEN [exists |-> TRUE, nodes |-> disk]
                               ELSE backupFile
            /\ disk' = result.convertedCode
  /\ pc' = "converted"
  /\ UNCHANGED <<src, options, analysis, result, codebase, run, watch>>

\* convert: the else branch, skipped++
SkipFailed ==
  /\ pc = "transformed"
  /\ ~(result.success /\ result.hasCode)
  /\ pc' = "skipped"
  /\ UNCHANGED <<src, options, analysis, result, disk, backupFile, codebase, run, watch>>

\* a library caller invokes transformFile directly
ApiTransform ==
  /\ pc = "start"
  /\ result' = transformFile(src)
  /\ pc' = "returned"
  /\ UNCHANGED <<src, options, analysis, disk, backupFile, codebase, run, watch>>

Next ==
  \/ Analyze
  \/ Skip
  \/ Transform
  \/ Write
  \/ SkipFailed
  \/ ApiTransform

Spec == Init /\ [][Next]_vars

----------------------------------------------------------------------------
(* Numbers.  estimatedHours and estimatedSavings are IEEE-754 doubles.  A   *)
(* double x is held exactly as the pair [q, d] with                         *)
(*     x = q/100 + d * F,   F = 1/(25 * 2^56)   (so 1/100 = 2^54 * F),      *)
(* and every arithmetic result is rounded to the nearest double, ties to    *)
(* even, as the hardware does.  The literals: 0.25, 0.5 and 1.5 are exact,  *)
(* the double 0.8 is 0.8 + 80 F and the double 0.3 is 0.3 - 20 F.           *)

Dbl(q, d) == [q |-> q, d |-> d]

\* q/100 >= 2^e
AtLeastPow2(q, e) == IF e >= 0 THEN q >= 100 * 2^e ELSE q * 2^(-e) >= 100

\* the binary exponent of q/100 + d*F, for q > 0
DoubleExponent(q, d) ==
  LET e == CHOOSE k \in -6..24 : AtLeastPow2(q, k) /\ ~AtLeastPow2(q, k + 1)
      isPow2 == IF e >= 0 THEN q = 100 * 2^e ELSE q * 2^(-e) = 100
  IN IF isPow2 /\ d < 0 THEN e - 1 ELSE e

\* 2^n modulo 25 (2 has order 20 modulo 25)
Pow2Mod25(n) == (2^(n % 20)) % 25

\* the nearest double to q/100 + d*F, ties to the even mantissa
RoundToDouble(q, d) ==
  IF q = 0 /\ d = 0 THEN Dbl(0, 0)
  ELSE LET e   == DoubleExponent(q, d)
           ulp == 25 * 2^(e + 4)
           \* the value in units of F, modulo two ulps
           x2  == (2^(e + 5) * ((q * Pow2Mod25(49 - e)) % 25) + d) % (2 * ulp)
           r   == x2 % ulp
           odd == x2 >= ulp
       IN IF 2 * r < ulp THEN Dbl(q, d - r)
          ELSE IF 2 * r > ulp THEN Dbl(q, d - r + ulp)
          ELSE IF odd THEN Dbl(q, d - r + ulp)
          ELSE Dbl(q, d - r)

\* n * 0.25, n * 0.5, n * 1.5 for a counter n
TimesQuarter(n)       == RoundToDouble(25 * n, 0)
TimesHalf(n)          == RoundToDouble(50 * n, 0)
TimesOneAndAHalf(n)   == RoundToDouble(150 * n, 0)
\* x * 0.8 and x * 0.3 for x a multiple of a quarter
TimesPoint8(x) == RoundToDouble((x.q * 4) \div 5, (x.q * 4) \div 5)
TimesPoint3(x) == RoundToDouble((x.q * 3) \div 10, -(x.q \div 5))
DoubleAdd(x, y) == RoundToDouble(x.q + y.q, x.d + y.d)
TimesTen(x)     == RoundToDouble(10 * x.q, 10 * x.d)

\* Math.round: floor(x + 1/2)
MathRound(x) ==
  LET n == (x.q + 50) \div 100
  IN IF (x.q + 50) % 100 = 0 /\ x.d < 0 THEN n - 1 ELSE n

\* Math.round(x * 10) / 10, held as the number of tenths
RoundToTenths(x) == MathRound(TimesTen(x))

----------------------------------------------------------------------------
(* FormikAnalyzer.aggregateAnalysis and analyzeCodebase; the convert command *)

NoCounters ==
  [patterns |-> [useFormik |-> 0, Formik |-> 0, Field |-> 0, FieldArray |-> 0,
                 other |-> 0],
   complexity |-> [simple |-> 0, medium |-> 0, complex |-> 0],
   autoConvertible |-> 0, manualReviewNeeded |-> 0]

\* the forEach body without the final else of the type chain
countPattern_NoOther(acc, pattern) ==
  [patterns |->
     IF pattern.type \in {"useFormik", "Formik", "Field", "FieldArray"}
       THEN [acc.patterns EXCEPT ![pattern.type] = @ + 1]
       ELSE acc.patterns,
   complexity |-> [acc.complexity EXCEPT ![pattern.complexity] = @ + 1],
   autoConvertible |->
     IF pattern.canAutoConvert THEN acc.autoConvertible + 1 ELSE acc.autoConvertible,
   manualReviewNeeded |->
     IF pattern.canAutoConvert THEN acc.manualReviewNeeded
     ELSE acc.manualReviewNeeded + 1]

\* the body of file.patterns.forEach
countPattern(acc, pattern) ==
  [patterns |->
     IF pattern.type \in {"useFormik", "Formik", "Field", "FieldArray"}
       THEN [acc.patterns EXCEPT ![pattern.type] = @ + 1]
       ELSE [acc.patterns EXCEPT !.other = @ + 1],
   complexity |-> [acc.complexity EXCEPT ![pattern.complexity] = @ + 1],
   autoConvertible |->
     IF pattern.canAutoConvert THEN acc.autoConvertible + 1 ELSE acc.autoConvertible,
   manualReviewNeeded |->
     IF pattern.canAutoConvert THEN acc.manualReviewNeeded
     ELSE acc.manualReviewNeeded + 1]

RECURSIVE countPatterns(_, _)
countPatterns(acc, ps) ==
  IF ps = <<>> THEN acc ELSE countPatterns(countPattern(acc, Head(ps)), Tail(ps))

\* the savings taken at the full hour and a half per pattern
aggregateAnalysis_SavingsUnscaled(files, totalFiles) ==
  LET c == countPatterns(NoCounters,
                         Flatten([f \in DOMAIN files |-> files[f].analysis.patterns]))
      estimatedHours ==
        DoubleAdd(DoubleAdd(TimesQuarter(c.complexity.simple),
                            TimesHalf(c.complexity.medium)),
                  TimesOneAndAHalf(c.complexity.complex))
      estimatedSavings ==
        DoubleAdd(TimesOneAndAHalf(c.autoConvertible),
                  TimesOneAndAHalf(c.manualReviewNeeded))
  IN [done |-> TRUE,
      totalFiles |-> totalFiles,
      formikFiles |-> Len(files),
      patterns |-> c.patterns,
      complexity |-> c.complexity,
      autoConvertible |-> c.autoConvertible,
      manualReviewNeeded |-> c.manualReviewNeeded,
      estimatedHours |-> RoundToTenths(estimatedHours),
      estimatedSavings |-> RoundToTenths(estimatedSavings)]

aggregateAnalysis(files, totalFiles) ==
  LET c == countPatterns(NoCounters,
                         Flatten([f \in DOMAIN files |-> files[f].analysis.patterns]))
      estimatedHours ==
        DoubleAdd(DoubleAdd(TimesQuarter(c.complexity.simple),
                            TimesHalf(c.complexity.medium)),
                  TimesOneAndAHalf(c.complexity.complex))
      estimatedSavings ==
        DoubleAdd(TimesPoint8(TimesQuarter(c.autoConvertible)),
                  TimesPoint3(TimesHalf(c.manualReviewNeeded)))
  IN [done |-> TRUE,
      totalFiles |-> totalFiles,
      formikFiles |-> Len(files),
      patterns |-> c.patterns,
      complexity |-> c.complexity,
      autoConvertible |-> c.autoConvertible,
      manualReviewNeeded |-> c.manualReviewNeeded,
      estimatedHours |-> RoundToTenths(estimatedHours),
      estimatedSavings |-> RoundToTenths(estimatedSavings)]

\* file.patterns.some((p) => p.canAutoConvert), always true
anyAutoConvertible_Always(fa) == TRUE

\* file.patterns.some((p) => p.canAutoConvert)
anyAutoConvertible(fa) ==
  \E k \in DOMAIN fa.patterns : fa.patterns[k].canAutoConvert

\* ---- the files of a codebase
SourceFile(nodes, lines) ==
  [readable |-> TRUE, vanishes |-> FALSE, parses |-> TRUE, nodes |-> nodes,
   lines |-> lines]

FormikRender   == Elem("Formik", <<ExprAttr("initialValues"), ExprAttr("render")>>,
                       FALSE, FALSE)
FieldArrayElem == Elem("FieldArray", <<StrAttr("name", "friends")>>, TRUE, TRUE)
FastFieldElem  == Elem("FastField", <<StrAttr("name", "email"), ExprAttr("render")>>,
                       FALSE, FALSE)

\* readFileSync throws: no permission, or a directory named like a source file
UnreadableFile == [SourceFile(<<StdImport, StdCall>>, 10) EXCEPT !.readable = FALSE]
\* the parser throws
BrokenFile     == [SourceFile(<<>>, 30) EXCEPT !.parses = FALSE]
PlainFile      == SourceFile(<<Import("react", <<DefaultSpec("React")>>), OtherCall>>, 20)
ImportOnlyFile == SourceFile(<<Import("formik", <<NamedSpec("Form")>>), OtherCall>>, 20)
SimpleFile     == SourceFile(<<StdImport, StdCall, StdField>>, 40)
UnsafeFile     ==
  SourceFile(<<StdImport,
               ObjCall(<<IdProp("initialValues"), IdProp("onSubmit"), IdProp("validate")>>),
               StdField>>, 250)
NoImportFile   == SourceFile(<<StdCall, StdField>>, 40)
MixedFile      ==
  SourceFile(<<Import("formik", <<NamedSpec("Formik"), NamedSpec("FieldArray")>>),
               FormikRender, FieldArrayElem, FastFieldElem, IdentCall>>, 600)
\* removed from the disk after the analysis and before the convert loop reaches it
VanishingFile  == [SimpleFile EXCEPT !.vanishes = TRUE]

FileKinds ==
  {UnreadableFile, BrokenFile, PlainFile, ImportOnlyFile, SimpleFile, UnsafeFile,
   NoImportFile, MixedFile, VanishingFile}

Codebases == SeqsUpTo(FileKinds, MaxFiles)

Warning(file, text) == [file |-> file, text |-> text]

\* ---- the calls the convert loop makes on the file system, in order
BackupOp(index, content) == [op |-> "backup", index |-> index, content |-> content]
WriteOp(index, content)  == [op |-> "write", index |-> index, content |-> content]

\* what the file at a codebase position holds after the calls made so far
RECURSIVE DiskAfter(_, _, _)
DiskAfter(log, index, original) ==
  IF log = <<>> THEN original
  ELSE LET last == log[Len(log)]
       IN IF last.op = "write" /\ last.index = index THEN last.content
          ELSE DiskAfter(SubSeq(log, 1, Len(log) - 1), index, original)

\* the overwrite placed before the copy to <file>.backup
backupAndWrite_WriteFirst(opts, index, current, converted) ==
  <<WriteOp(index, converted)>>
    \o (IF opts.backup THEN <<BackupOp(index, converted)>> ELSE <<>>)

\* writeFileSync(`${file.filePath}.backup`, readFileSync(file.filePath)) when
\* --backup, then writeFileSync(file.filePath, result.convertedCode)
backupAndWrite(opts, index, current, converted) ==
  (IF opts.backup THEN <<BackupOp(index, current)>> ELSE <<>>)
    \o <<WriteOp(index, converted)>>

\* the success branch without the test of --dry-run
fileWrites_IgnoresDryRun(opts, index, current, converted) ==
  backupAndWrite(opts, index, current, converted)

\* the success branch: if (!options.dryRun) { ... }
fileWrites(opts, index, current, converted) ==
  IF opts.dryRun THEN <<>> ELSE backupAndWrite(opts, index, current, converted)

\* the prompt never shown
needsConfirmation_Never(opts) == FALSE

\* if (!options.yes && !options.dryRun)
needsConfirmation(opts) == ~opts.yes /\ ~opts.dryRun

InitCodebase ==
  /\ codebase \in Codebases
  /\ options \in [dryRun : BOOLEAN, backup : BOOLEAN, yes : BOOLEAN]
  /\ run = [NoRun EXCEPT !.phase = "analyzing"]
  /\ watch = NoWatch
  /\ src = [parses |-> FALSE, nodes |-> <<>>, lines |-> 0]
  /\ pc = "codebase"
  /\ analysis = NoAnalysis
  /\ result = NoResult
  /\ disk = <<>>
  /\ backupFile = [exists |-> FALSE, nodes |-> <<>>]

\* analyzeCodebase, one turn of the loop: analyzeFile returns
AnalyzeNextFile ==
  /\ run.phase = "analyzing"
  /\ run.i < Len(codebase)
  /\ codebase[run.i + 1].readable
  /\ LET fa == analyzeFile(codebase[run.i + 1])
     IN run' = [run EXCEPT
                  !.i = @ + 1,
                  !.returned = Append(@, fa),
                  !.files = IF fa.hasFormik
                              THEN Append(@, [index |-> run.i + 1, analysis |-> fa])
                              ELSE @]
  /\ UNCHANGED <<src, options, pc, analysis, result, disk, backupFile, codebase, watch>>

\* analyzeCodebase, one turn of the loop: readFileSync throws in analyzeFile,
\* nothing catches it in analyzeCodebase or in the convert command
AnalyzeUnreadable ==
  /\ run.phase = "analyzing"
  /\ run.i < Len(codebase)
  /\ ~codebase[run.i + 1].readable
  /\ run' = [run EXCEPT !.phase = "crashed"]
  /\ UNCHANGED <<src, options, pc, analysis, result, disk, backupFile, codebase, watch>>

\* analyzeCodebase returns aggregateAnalysis(analyses, files.length)
Aggregate ==
  /\ run.phase = "analyzing"
  /\ run.i = Len(codebase)
  /\ run' = [run EXCEPT !.phase = "aggregated",
                        !.aggregate = aggregateAnalysis(run.files, Len(codebase))]
  /\ UNCHANGED <<src, options, pc, analysis, result, disk, backupFile, codebase, watch>>

\* convert: analysis.autoConvertible === 0, process.exit(0)
NothingToConvert ==
  /\ run.phase = "aggregated"
  /\ run.aggregate.autoConvertible = 0
  /\ run' = [run EXCEPT !.phase = "exited"]
  /\ UNCHANGED <<src, options, pc, analysis, result, disk, backupFile, codebase, watch>>

\* convert: inquirer.prompt is shown
Prompt ==
  /\ run.phase = "aggregated"
  /\ run.aggregate.autoConvertible # 0
  /\ needsConfirmation(options)
  /\ run' = [run EXCEPT !.phase = "prompting", !.prompted = TRUE]
  /\ UNCHANGED <<src, options, pc, analysis, result, disk, backupFile, codebase, watch>>

\* convert: the prompt is answered no (its default), process.exit(0)
Cancel ==
  /\ run.phase = "prompting"
  /\ run' = [run EXCEPT !.phase = "cancelled"]
  /\ UNCHANGED <<src, options, pc, analysis, result, disk, backupFile, codebase, watch>>

\* convert: the prompt is answered yes
Confirm ==
  /\ run.phase = "prompting"
  /\ run' = [run EXCEPT !.phase = "converting", !.confirmed = TRUE]
  /\ UNCHANGED <<src, options, pc, analysis, result, disk, backupFile, codebase, watch>>

\* convert: --yes or --dry-run, the loop starts without a prompt
StartConvert ==
  /\ run.phase = "aggregated"
  /\ run.aggregate.autoConvertible # 0
  /\ ~needsConfirmation(options)
  /\ run' = [run EXCEPT !.phase = "converting"]
  /\ UNCHANGED <<src, options, pc, analysis, result, disk, backupFile, codebase, watch>>

\* convert: one turn of for (const file of analysis.files)
ConvertNextFile ==
  /\ run.phase = "converting"
  /\ run.j < Len(run.files)
  /\ LET entry == run.files[run.j + 1]
         file  == codebase[entry.index]
         res   == transformFile(file)
     IN run' =
          IF ~anyAutoConvertible(entry.analysis)
            THEN [run EXCEPT !.j = @ + 1, !.skipped = @ + 1]
          ELSE IF file.vanishes
            \* readFileSync throws in transformFile; the loop's catch
            THEN [run EXCEPT !.j = @ + 1, !.skipped = @ + 1,
                             !.passed = @ \cup {entry.index},
                             !.allWarnings = Append(@, Warning(entry.index, "ENOENT"))]
          ELSE IF res.success /\ res.hasCode
            THEN [run EXCEPT !.j = @ + 1, !.converted = @ + 1,
                             !.passed = @ \cup {entry.index},
                             !.allWarnings =
                               @ \o [w \in DOMAIN res.warnings |->
                                       Warning(0, res.warnings[w])],
                             !.backedUp = IF ~options.dryRun /\ options.backup
                                            THEN @ \cup {entry.index} ELSE @,
                             !.written = IF ~options.dryRun
                                           THEN @ \cup {entry.index} ELSE @,
                             !.fsLog =
                               @ \o fileWrites(options, entry.index,
                                               DiskAfter(run.fsLog, entry.index,
                                                         file.nodes),
                                               res.convertedCode)]
          ELSE [run EXCEPT !.j = @ + 1, !.skipped = @ + 1,
                           !.passed = @ \cup {entry.index},
                           !.allWarnings =
                             IF res.hasError
                               THEN Append(@, Warning(entry.index, res.error))
                               ELSE @]
  /\ UNCHANGED <<src, options, pc, analysis, result, disk, backupFile, codebase, watch>>

\* convert: the loop is over, the summary is printed
Finish ==
  /\ run.phase = "converting"
  /\ run.j = Len(run.files)
  /\ run' = [run EXCEPT !.phase = "done"]
  /\ UNCHANGED <<src, options, pc, analysis, result, disk, backupFile, codebase, watch>>

NextCodebase ==
  \/ AnalyzeNextFile
  \/ AnalyzeUnreadable
  \/ Aggregate
  \/ NothingToConvert
  \/ Prompt
  \/ Cancel
  \/ Confirm
  \/ StartConvert
  \/ ConvertNextFile
  \/ Finish

SpecCodebase == InitCodebase /\ [][NextCodebase]_vars

----------------------------------------------------------------------------
(* The report renderers (src/src/reporter/index.ts, HTML report generator)  *)
(* called on the CodebaseAnalysis that analyzeCodebase returned.  A report  *)
(* is held as what it shows: the files in the order listed, the times, and  *)
(* for the HTML dashboard the auto-convertible percentage.                  *)

\* analyzeCodebase from the glob to the return, every file readable
\* the analyses pushed by the loop of analyzeCodebase
keptAnalyses(cb) ==
  SelectSeq([k \in DOMAIN cb |-> [index |-> k, analysis |-> analyzeFile(cb[k])]],
            LAMBDA e : e.analysis.hasFormik)

analyzeCodebase(cb) ==
  [files |-> keptAnalyses(cb),
   aggregate |-> aggregateAnalysis(keptAnalyses(cb), Len(cb))]

\* insertion of e into a list sorted by falling pattern count, after its equals
RECURSIVE insertByPatterns(_, _)
insertByPatterns(sorted, e) ==
  IF sorted = <<>> THEN <<e>>
  ELSE IF Len(Head(sorted).analysis.patterns) >= Len(e.analysis.patterns)
    THEN <<Head(sorted)>> \o insertByPatterns(Tail(sorted), e)
  ELSE <<e>> \o sorted

\* files.sort((a, b) => b.patterns.length - a.patterns.length): stable
RECURSIVE sortByPatterns(_)
sortByPatterns(files) ==
  IF files = <<>> THEN <<>>
  ELSE insertByPatterns(sortByPatterns(SubSeq(files, 1, Len(files) - 1)),
                        files[Len(files)])

\* formatHours on a number of tenths of an hour
formatHours(tenths) ==
  IF tenths < 10 THEN [unit |-> "minutes", value |-> 6 * tenths]
  ELSE [unit |-> "hours", tenths |-> tenths]

Listed(files) == [f \in DOMAIN files |-> files[f].index]

\* Math.round((autoConvertible / (autoConvertible + manualReviewNeeded)) * 100);
\* 0 / 0 is NaN and Math.round(NaN) is NaN.  Below 40 patterns the double
\* quotient times 100 rounds to the same integer as the exact quotient.
autoPercentage(agg) ==
  IF agg.formikFiles > 0
    THEN IF agg.autoConvertible + agg.manualReviewNeeded = 0
           THEN [nan |-> TRUE, value |-> 0]
           ELSE [nan |-> FALSE,
                 value |-> (200 * agg.autoConvertible
                              + (agg.autoConvertible + agg.manualReviewNeeded))
                           \div (2 * (agg.autoConvertible + agg.manualReviewNeeded))]
    ELSE [nan |-> FALSE, value |-> 0]

ReportFileKinds == {PlainFile, ImportOnlyFile, SimpleFile, UnsafeFile, MixedFile}

ReportCodebases == SeqsUpTo(ReportFileKinds, MaxFiles)

InitReport ==
  /\ codebase \in ReportCodebases
  /\ run = [NoRun EXCEPT !.phase = "reporting",
                         !.i = Len(codebase),
                         !.returned = [k \in DOMAIN codebase |-> analyzeFile(codebase[k])],
                         !.files = analyzeCodebase(codebase).files,
                         !.aggregate = analyzeCodebase(codebase).aggregate]
  /\ options = [format |-> "any"]
  /\ watch = NoWatch
  /\ src = [parses |-> FALSE, nodes |-> <<>>, lines |-> 0]
  /\ pc = "reports"
  /\ analysis = NoAnalysis
  /\ result = NoResult
  /\ disk = <<>>
  /\ backupFile = [exists |-> FALSE, nodes |-> <<>>]

\* generateConsoleReport: the tables, then the five files with most patterns
ConsoleReport ==
  /\ run.phase = "reporting"
  /\ Len(run.rendered) < MaxReports
  /\ LET sorted == sortByPatterns(run.files)
     IN run' = [run EXCEPT
                  !.files = sorted,
                  !.rendered =
                    Append(@, [kind |-> "console",
                               manual |-> formatHours(run.aggregate.estimatedHours),
                               withTool |-> formatHours(run.aggregate.estimatedHours
                                                          - run.aggregate.estimatedSavings),
                               files |-> Listed(SubSeq(sorted, 1,
                                                       IF Len(sorted) < 5
                                                         THEN Len(sorted) ELSE 5))])]
  /\ UNCHANGED <<src, options, pc, analysis, result, disk, backupFile, codebase, watch>>

\* generateJsonReport: JSON.stringify(analysis)
JsonReport ==
  /\ run.phase = "reporting"
  /\ Len(run.rendered) < MaxReports
  /\ run' = [run EXCEPT
               !.rendered = Append(@, [kind |-> "json", aggregate |-> run.aggregate,
                                       files |-> Listed(run.files)])]
  /\ UNCHANGED <<src, options, pc, analysis, result, disk, backupFile, codebase, watch>>

\* generateMarkdownReport
MarkdownReport ==
  /\ run.phase = "reporting"
  /\ Len(run.rendered) < MaxReports
  /\ run' = [run EXCEPT
               !.rendered =
                 Append(@, [kind |-> "markdown",
                            manual |-> formatHours(run.aggregate.estimatedHours),
                            withTool |-> formatHours(run.aggregate.estimatedHours
                                                       - run.aggregate.estimatedSavings),
                            files |-> Listed(run.files)])]
  /\ UNCHANGED <<src, options, pc, analysis, result, disk, backupFile, codebase, watch>>

\* generateHtmlReport
HtmlReport ==
  /\ run.phase = "reporting"
  /\ Len(run.rendered) < MaxReports
  /\ run' = [run EXCEPT
               !.rendered =
                 Append(@, [kind |-> "html",
                            autoPercentage |-> autoPercentage(run.aggregate),
                            withTool |-> run.aggregate.estimatedHours - run.aggregate.estimatedSavings,
                            files |-> Listed(run.files)])]
  /\ UNCHANGED <<src, options, pc, analysis, result, disk, backupFile, codebase, watch>>

NextReport ==
  \/ ConsoleReport
  \/ JsonReport
  \/ MarkdownReport
  \/ HtmlReport

SpecReport == InitReport /\ [][NextReport]_vars

----------------------------------------------------------------------------
(* watchDirectory (src/src/utils/watch.ts).                                 *)
(*                                                                          *)
(* Callbacks run to completion.  analyzeCodebase is an async function whose *)
(* body never awaits (glob.sync, readFileSync), so the whole analysis runs  *)
(* inside the runAnalysis call; what follows the await (onChange or         *)
(* onError, then the finally block) is a microtask, which runs before any   *)
(* timer or file-system callback.  Only the code that called                *)
(* watchDirectory runs between the initial runAnalysis() and its            *)
(* continuation, and that code holds the stop function.                     *)

NoFlight == [active |-> FALSE]

\* the file names fs.watch reports; null when the platform gives none
Filename(dir, ext) == [null |-> FALSE, dir |-> dir, ext |-> ext]
NullFilename == [null |-> TRUE, dir |-> "", ext |-> ""]

Filenames ==
  {Filename(d, e) : d \in {"src", "node_modules", ".git", "builder"},
                    e \in {".tsx", ".js", ".md", ""}}
  \cup {NullFilename}

ignoreDirs == {"node_modules", "dist", ".next", "build", ".git"}

\* filename.includes(sep + ignored + sep) || filename.startsWith(ignored + sep)
isIgnored(filename) == filename.dir \in ignoreDirs

\* the fired timer's handle taken for a pending timer
handleChange_NoReschedule(w, filename) ==
  IF filename.null THEN w
  ELSE IF filename.ext \notin {".ts", ".tsx", ".js", ".jsx"} THEN w
  ELSE IF w.debounceTimer # "none" THEN w
  ELSE [w EXCEPT !.debounceTimer = "pending"]

\* handleChange: clearTimeout(debounceTimer), then setTimeout(runAnalysis, debounceMs)
handleChange(w, filename) ==
  IF filename.null THEN w
  ELSE IF filename.ext \notin {".ts", ".tsx", ".js", ".jsx"} THEN w
  ELSE [w EXCEPT !.debounceTimer = "pending"]

\* runAnalysis up to the await: the guard, the flag, analyzeCodebase itself.
\* The CodebaseAnalysis awaited is held by its two file counts.
runAnalysis(w, cb, origin) ==
  IF w.isAnalyzing THEN w
  ELSE [w EXCEPT
          !.isAnalyzing = TRUE,
          !.running = @ + 1,
          !.startsAfterStop = IF w.stopped THEN @ + 1 ELSE @,
          !.serving = w.unserved,
          !.unserved = FALSE,
          !.inFlight =
            IF \E k \in DOMAIN cb : ~cb[k].readable
              THEN [active |-> TRUE, origin |-> origin, outcome |-> "throws"]
              ELSE [active |-> TRUE, origin |-> origin, outcome |-> "ok",
                    analysis |-> [totalFiles |-> Len(cb),
                                  formikFiles |-> Len(keptAnalyses(cb))]]]

\* runAnalysis after the await, without the finally block on the catch path
afterAwait_NoFinally(w) ==
  [w EXCEPT
     !.isAnalyzing = (w.inFlight.outcome # "ok"),
     !.running = @ - 1,
     !.serving = FALSE,
     !.inFlight = NoFlight,
     !.callsAfterStop = IF w.stopped THEN @ + 1 ELSE @,
     !.reports = Append(@, [origin |-> w.inFlight.origin,
                            outcome |-> w.inFlight.outcome,
                            via |-> IF w.inFlight.outcome = "ok"
                                      THEN "onChange" ELSE "onError"])]

\* runAnalysis after the await: onChange(analysis) or onError(error), finally
afterAwait(w) ==
  [w EXCEPT
     !.isAnalyzing = FALSE,
     !.running = @ - 1,
     !.serving = FALSE,
     !.inFlight = NoFlight,
     !.callsAfterStop = IF w.stopped THEN @ + 1 ELSE @,
     !.reports = Append(@, [origin |-> w.inFlight.origin,
                            outcome |-> w.inFlight.outcome,
                            via |-> IF w.inFlight.outcome = "ok"
                                      THEN "onChange" ELSE "onError"])]

\* stop: clearTimeout(debounceTimer), close every watcher
stop(w) ==
  [w EXCEPT !.stopped = TRUE,
            !.watching = FALSE,
            !.debounceTimer = IF @ = "pending" THEN "cleared" ELSE @]

WatchCodebases ==
  {<<SimpleFile>>, <<UnreadableFile, SimpleFile>>, <<ImportOnlyFile, MixedFile>>}

\* watchDirectory has returned: the directory is watched (or fs.watch threw and
\* onError was called), the initial analysis is awaited
InitWatch ==
  /\ codebase \in WatchCodebases
  /\ \E watched \in BOOLEAN :
       watch = runAnalysis([watching |-> watched,
                            stopped |-> FALSE,
                            debounceTimer |-> "none",
                            isAnalyzing |-> FALSE,
                            inFlight |-> NoFlight,
                            running |-> 0,
                            events |-> 0,
                            unserved |-> FALSE,
                            serving |-> FALSE,
                            startsAfterStop |-> 0,
                            callsAfterStop |-> 0,
                            reports |-> IF watched THEN <<>>
                                        ELSE <<[origin |-> "watchDir",
                                                outcome |-> "throws",
                                                via |-> "onError"]>>],
                           codebase, "initial")
  /\ run = NoRun
  /\ options = [debounceMs |-> 500]
  /\ src = [parses |-> FALSE, nodes |-> <<>>, lines |-> 0]
  /\ pc = "watch"
  /\ analysis = NoAnalysis
  /\ result = NoResult
  /\ disk = <<>>
  /\ backupFile = [exists |-> FALSE, nodes |-> <<>>]

\* a file of the directory changes and the fs.watch listener is called
FileEvent ==
  /\ watch.watching
  /\ ~watch.inFlight.active
  /\ watch.events < MaxEvents
  /\ \E filename \in Filenames, cb \in WatchCodebases :
       /\ codebase' = cb
       /\ watch' =
            LET w == [watch EXCEPT
                        !.events = @ + 1,
                        !.unserved =
                          @ \/ (/\ ~filename.null
                                /\ filename.ext \in {".ts", ".tsx", ".js", ".jsx"}
                                /\ filename.dir \notin {"node_modules", "dist", ".next",
                                                        "build", ".git"})]
            IN IF ~filename.null /\ ~isIgnored(filename)
                 THEN handleChange(w, filename)
                 ELSE w
  /\ UNCHANGED <<src, options, pc, analysis, result, disk, backupFile, run>>

\* the debounce timer fires: runAnalysis
TimerFire ==
  /\ watch.debounceTimer = "pending"
  /\ ~watch.inFlight.active
  /\ watch' = runAnalysis([watch EXCEPT !.debounceTimer = "fired"], codebase, "timer")
  /\ UNCHANGED <<src, options, pc, analysis, result, disk, backupFile, codebase, run>>

\* the continuation of runAnalysis
AfterAwait ==
  /\ watch.inFlight.active
  /\ watch' = afterAwait(watch)
  /\ UNCHANGED <<src, options, pc, analysis, result, disk, backupFile, codebase, run>>

\* the caller invokes stop(): later, or right after watchDirectory returned
Stop ==
  /\ ~watch.stopped
  /\ watch.inFlight.active => watch.inFlight.origin = "initial"
  /\ watch' = stop(watch)
  /\ UNCHANGED <<src, options, pc, analysis, result, disk, backupFile, codebase, run>>

NextWatch ==
  \/ FileEvent
  \/ TimerFire
  \/ AfterAwait
  \/ Stop

SpecWatch == InitWatch /\ [][NextWatch]_vars

\* timers fire and microtasks run
SpecWatchFair == SpecWatch /\ WF_vars(TimerFire) /\ WF_vars(AfterAwait)

----------------------------------------------------------------------------
(* Vocabulary of the properties *)

AllowList == {"initialValues", "onSubmit", "validationSchema"}
DenyList  == {"validate", "validateOnChange", "validateOnBlur", "enableReinitialize"}

Out == result.convertedCode

UseFormikAt(i) == IsUseFormikCall(src.nodes[i])
FieldAt(i)     == IsJsx(src.nodes[i]) /\ src.nodes[i].tag = "Field"

UnsafeHookPresent ==
  \E i \in DOMAIN src.nodes : UseFormikAt(i) /\ ~isSafeUseFormik(src.nodes[i])

\* an attribute `name` holding a string literal
HasStringAttr(el, name) ==
  \E j \in DOMAIN el.attrs :
    /\ el.attrs[j].type = "JSXAttribute"
    /\ el.attrs[j].name = name
    /\ el.attrs[j].valueType = "StringLiteral"

\* `name` is bound by some import declaration of the node list
Imported(nodes, name) ==
  \E i \in DOMAIN nodes :
    /\ IsImport(nodes[i])
    /\ \E j \in DOMAIN nodes[i].specifiers : nodes[i].specifiers[j].local = name

----------------------------------------------------------------------------
(* C1: all-or-nothing conversion.  Whenever transformFile has returned for a
   file holding a useFormik call that fails the safe predicate, the result has
   success = FALSE, no convertedCode and an empty change list, and neither the
   file on disk nor a backup holds anything but the original nodes. *)
C1_AllOrNothing ==
  (result.returned /\ UnsafeHookPresent) =>
    /\ ~result.success
    /\ ~result.hasCode
    /\ result.convertedCode = <<>>
    /\ result.changes = <<>>
    /\ result.hasError
    /\ disk = src.nodes
    /\ ~backupFile.exists

\* an unsafe call next to an otherwise-safe Field, after the convert loop body
C1_Witness ==
  /\ pc = "skipped"
  /\ result.returned
  /\ UnsafeHookPresent
  /\ \E i \in DOMAIN src.nodes :
       FieldAt(i) /\ isSafeField(src.nodes[i]) /\ HasStringAttr(src.nodes[i], "name")
  /\ \E i \in DOMAIN src.nodes : IsImport(src.nodes[i]) /\ src.nodes[i].source = "formik"

(* C2: only usages proved safe are rewritten.  In a convert run, a file with a
   useFormik pattern the analyzer reported with canAutoConvert = FALSE never
   gets a successful conversion. *)
C2_OnlySafeRewritten ==
  (analysis.done /\ result.returned) =>
    \A k \in DOMAIN analysis.patterns :
      (analysis.patterns[k].type = "useFormik" /\ ~analysis.patterns[k].canAutoConvert)
        => ~result.success

(* C3: safety soundness.  Every useFormik pattern classified simple has a
   configuration of at most 3 properties, each an identifier-keyed property
   of the allow-list, none carrying a deny-listed key. *)
C3_SimpleIsSound ==
  analysis.done =>
    \A k \in DOMAIN analysis.patterns :
      LET p    == analysis.patterns[k]
          call == src.nodes[p.location]
      IN (p.type = "useFormik" /\ p.complexity = "simple") =>
           /\ Len(call.props) <= 3
           /\ \A j \in DOMAIN call.props :
                /\ call.props[j].type = "ObjectProperty"
                /\ call.props[j].keyType = "Identifier"
                /\ call.props[j].key \in AllowList
                /\ call.props[j].key \notin DenyList

(* C4: the transformer's safe predicate and the classifier's simple tier
   agree on every useFormik argument. *)
C4_SafeIffSimple ==
  (analysis.done /\ result.returned) =>
    \A k \in DOMAIN analysis.patterns :
      analysis.patterns[k].type = "useFormik" =>
        (isSafeUseFormik(src.nodes[analysis.patterns[k].location])
           <=> analysis.patterns[k].complexity = "simple")

(* C5: after a successful conversion, every element still named Field or
   Formik whose name the original file imported still has that name imported. *)
C5_ImportsKeptForRemaining ==
  (result.returned /\ result.success) =>
    \A i \in DOMAIN Out :
      (IsJsx(Out[i]) /\ Out[i].tag \in {"Field", "Formik"}
         /\ Imported(src.nodes, Out[i].tag))
        => Imported(Out, Out[i].tag)

(* C6: in a convert run whose transformation succeeds, every pattern reported
   with canAutoConvert = TRUE is rewritten: its node differs from the original. *)
C6_EveryConvertibleRewritten ==
  (analysis.done /\ result.returned /\ result.success) =>
    \A k \in DOMAIN analysis.patterns :
      analysis.patterns[k].canAutoConvert =>
        Out[analysis.patterns[k].location] # src.nodes[analysis.patterns[k].location]

\* what the hook rewrite is to make of one configuration property
ExpectedHookProp(p) ==
  IF p.type = "ObjectProperty" /\ p.keyType = "Identifier" /\ p.key = "initialValues"
    THEN [p EXCEPT !.key = "defaultValues"]
  ELSE IF p.type = "ObjectProperty" /\ p.keyType = "Identifier"
            /\ p.key = "validationSchema"
    THEN [p EXCEPT !.key = "resolver", !.value = <<"yupResolver">> \o p.value]
  ELSE p

\* the validationSchema keys of all the useFormik calls of the file
SchemaKeys ==
  {<<i, j>> \in (DOMAIN src.nodes) \X (1..(MaxProps + 1)) :
     /\ UseFormikAt(i)
     /\ j \in DOMAIN src.nodes[i].props
     /\ PropName(src.nodes[i].props[j]) = "validationSchema"}

(* C7: hook rewrite.  After a successful conversion every useFormik call has
   the callee useForm and its configuration is the original one, property by
   property in the same order, with initialValues renamed to defaultValues,
   validationSchema replaced by resolver: yupResolver(value), and every other
   property unchanged; one yupResolver import warning per validationSchema key. *)
C7_HookRewrite ==
  (result.returned /\ result.success) =>
    /\ \A i \in DOMAIN src.nodes :
         UseFormikAt(i) =>
           /\ Out[i].callee = "useForm"
           /\ Out[i].props = [j \in DOMAIN src.nodes[i].props |->
                                ExpectedHookProp(src.nodes[i].props[j])]
    /\ Count(result.warnings, YupWarning) = Cardinality(SchemaKeys)

\* what the import rewrite is to make of one specifier
ExpectedSpecifier(spec) ==
  IF spec.type = "ImportSpecifier" /\ spec.imported = "useFormik"
    THEN <<NamedSpec("useForm")>>
  ELSE IF spec.type = "ImportSpecifier" /\ spec.imported = "Field" THEN <<>>
  ELSE <<spec>>

(* C8: import rewrite.  After a successful conversion every formik import has
   the source react-hook-form, useFormik replaced by useForm, the Field
   specifier dropped and every other specifier (named, default, namespace)
   kept, in order. *)
C8_ImportRewrite ==
  (result.returned /\ result.success) =>
    \A i \in DOMAIN src.nodes :
      (IsImport(src.nodes[i]) /\ src.nodes[i].source = "formik") =>
        /\ Out[i].source = "react-hook-form"
        /\ Out[i].specifiers =
             Flatten([j \in DOMAIN src.nodes[i].specifiers |->
                        ExpectedSpecifier(src.nodes[i].specifiers[j])])

CustomRenderAttrs == {"render", "component", "children", "as"}

\* the string-literal values of the attributes `name` of the element
StringAttrValues(el, name) ==
  {el.attrs[j].value[1] : j \in {k \in DOMAIN el.attrs :
                                   /\ el.attrs[k].type = "JSXAttribute"
                                   /\ el.attrs[k].name = name
                                   /\ el.attrs[k].valueType = "StringLiteral"}}

RegisterSpread(n) ==
  [type |-> "JSXSpreadAttribute", name |-> "", valueType |-> "CallExpression",
   value |-> <<"register", n>>]

(* C9: field rewrite.  After a successful conversion every Field element with no
   custom-render attribute and a string-literal name N is an input element with
   no closing tag, marked self-closing, whose attributes are exactly
   {...register(N)} and type = T, T the original string-literal type or "text". *)
C9_FieldRewrite ==
  (result.returned /\ result.success) =>
    \A i \in DOMAIN src.nodes :
      (/\ FieldAt(i)
       /\ ~HasAttrNamed(src.nodes[i].attrs, CustomRenderAttrs)
       /\ HasStringAttr(src.nodes[i], "name")) =>
        /\ Out[i].tag = "input"
        /\ ~Out[i].hasClosing
        /\ Out[i].selfClosing
        /\ \E n \in StringAttrValues(src.nodes[i], "name") :
           \E ty \in (IF HasStringAttr(src.nodes[i], "type")
                        THEN StringAttrValues(src.nodes[i], "type") ELSE {"text"}) :
             Out[i].attrs = <<RegisterSpread(n), StrAttr("type", ty)>>

\* the Field elements the transformer takes as safe and leaves named Field
SkippedFields ==
  {i \in DOMAIN src.nodes :
     FieldAt(i) /\ isSafeField(src.nodes[i]) /\ Out[i].tag = "Field"}

(* C10: a safe Field element without a string-literal name is skipped.  When no
   useFormik call is unsafe the conversion succeeds, every such element is
   returned exactly as it was, and the result carries one 'Field without name -
   skipped' warning per skipped element. *)
C10_NoNameSkipped ==
  (result.returned /\ src.parses /\ ~UnsafeHookPresent) =>
    /\ result.success
    /\ \A i \in DOMAIN src.nodes :
         (FieldAt(i) /\ isSafeField(src.nodes[i])
            /\ ~HasStringAttr(src.nodes[i], "name")) =>
           /\ Out[i] = src.nodes[i]
           /\ i \in SkippedFields
    /\ Count(result.warnings, NoNameWarning) = Cardinality(SkippedFields)

\* a converted file holding a nameless safe Field, with its warning
C10_Witness ==
  /\ pc = "converted"
  /\ result.success
  /\ \E i \in DOMAIN src.nodes :
       /\ FieldAt(i) /\ isSafeField(src.nodes[i])
       /\ ~HasStringAttr(src.nodes[i], "name")
       /\ Out[i] = src.nodes[i]
  /\ Count(result.warnings, NoNameWarning) = 1

\* a useFormik call whose configuration is not an object literal
NonObjectConfigPresent ==
  \E i \in DOMAIN src.nodes :
    UseFormikAt(i) /\ src.nodes[i].argType # "ObjectExpression"

\* a useFormik call with an identifier key of the deny-list
DenyKeyPresent ==
  \E i \in DOMAIN src.nodes :
    /\ UseFormikAt(i)
    /\ \E j \in DOMAIN src.nodes[i].props :
         /\ src.nodes[i].props[j].type = "ObjectProperty"
         /\ src.nodes[i].props[j].keyType = "Identifier"
         /\ src.nodes[i].props[j].key \in DenyList

\* a Field element, taken as safe, without a string-literal name
NamelessFieldPresent ==
  \E i \in DOMAIN src.nodes :
    FieldAt(i) /\ isSafeField(src.nodes[i]) /\ ~HasStringAttr(src.nodes[i], "name")

ExplicitFailure ==
  /\ ~result.success
  /\ result.hasError
  /\ ~result.hasCode
  /\ result.convertedCode = <<>>

(* C11 as stated: a file with an unsafe node, a Field element with no name, or a
   useFormik call with a non-object-literal configuration is reported as an
   explicit failed ConversionResult and yields no converted text. *)
C11_FailureReported ==
  (result.returned /\ src.parses
     /\ (UnsafeHookPresent \/ NamelessFieldPresent \/ NonObjectConfigPresent))
    => ExplicitFailure

(* C11 amended: a file with a useFormik call that carries a deny-listed key or a
   non-object-literal configuration is reported as an explicit failed
   ConversionResult with the manual-review error and yields no converted text;
   a Field element with no name does not fail the conversion: without an unsafe
   useFormik call the result has success = TRUE and carries the skip warning. *)
C11_UnsafeHookFails ==
  (result.returned /\ src.parses) =>
    /\ (NonObjectConfigPresent \/ DenyKeyPresent) =>
         /\ ExplicitFailure
         /\ result.error = "File contains complex patterns that need manual review"
    /\ (NamelessFieldPresent /\ ~UnsafeHookPresent) =>
         /\ result.success
         /\ result.hasCode
         /\ Count(result.warnings, NoNameWarning) >= 1

\* the convert loop skipped a file because of useFormik(config)
C11_Witness ==
  /\ pc = "skipped"
  /\ result.returned
  /\ NonObjectConfigPresent
  /\ ~DenyKeyPresent
  /\ ExplicitFailure

(* C12: every ConversionResult has exactly one of convertedCode and error:
   error and no convertedCode when success is FALSE, convertedCode and no error
   when success is TRUE. *)
C12_CodeXorError ==
  result.returned =>
    /\ result.hasCode # result.hasError
    /\ result.success  => (result.hasCode /\ ~result.hasError /\ result.error = "")
    /\ ~result.success => (result.hasError /\ ~result.hasCode
                             /\ result.convertedCode = <<>>)

\* the result of a file that could not be parsed
C12_Witness ==
  /\ result.returned
  /\ ~src.parses
  /\ result.hasError
  /\ ~result.hasCode

(* C13: for every Pattern of analyzeFile, a reason is present exactly when
   canAutoConvert is FALSE, and canAutoConvert is TRUE exactly when the
   complexity is simple. *)
C13_ReasonIffNotConvertible ==
  analysis.done =>
    \A k \in DOMAIN analysis.patterns :
      LET p == analysis.patterns[k]
      IN /\ p.hasReason <=> ~p.canAutoConvert
         /\ p.canAutoConvert <=> (p.complexity = "simple")
         /\ p.hasReason <=> (p.reason # "")

\* an analysis holding a convertible pattern and a flagged <Formik> or Field
C13_Witness ==
  /\ analysis.done
  /\ \E k \in DOMAIN analysis.patterns : analysis.patterns[k].canAutoConvert
  /\ \E k \in DOMAIN analysis.patterns :
       /\ ~analysis.patterns[k].canAutoConvert
       /\ analysis.patterns[k].type # "useFormik"
       /\ analysis.patterns[k].hasReason

\* the keys written in a configuration object, whatever the property syntax
ConfigKeys(call) ==
  {call.props[j].key :
     j \in {x \in DOMAIN call.props :
              call.props[x].type \in {"ObjectProperty", "ObjectMethod"}}}

HookPolicy(call) ==
  IF call.argType # "ObjectExpression"
    THEN [tier |-> "complex", reason |-> "Non-standard configuration object"]
  ELSE LET props == ConfigKeys(call)
       IN IF props \subseteq {"initialValues", "onSubmit", "validationSchema"}
               /\ Cardinality(props) <= 3
            THEN [tier |-> "simple", reason |-> ""]
          ELSE IF props \cap {"validate", "validateOnChange", "validateOnBlur",
                              "enableReinitialize"} # {}
            THEN [tier |-> "complex",
                  reason |->
                    IF "validate" \in props
                      THEN "Custom validate function (convert to Zod/Yup)"
                    ELSE IF "enableReinitialize" \in props
                      THEN "Uses enableReinitialize (different pattern in RHF)"
                    ELSE "Custom validation triggers (adjust mode in RHF)"]
          ELSE [tier |-> "medium", reason |-> "Complex configuration needs review"]

(* C16: every useFormik pattern is classified by the hook policy: a non-object
   configuration is complex with the non-standard-configuration reason; a key
   set within {initialValues, onSubmit, validationSchema} is simple; else a key
   set meeting {validate, validateOnChange, validateOnBlur, enableReinitialize}
   is complex with the reason chosen by priority validate, enableReinitialize,
   validation triggers; else medium with the generic reason. *)
C16_HookPolicy ==
  analysis.done =>
    \A k \in DOMAIN analysis.patterns :
      LET p == analysis.patterns[k]
      IN p.type = "useFormik" =>
           /\ p.complexity = HookPolicy(src.nodes[p.location]).tier
           /\ p.reason = HookPolicy(src.nodes[p.location]).reason

\* the attribute names written on an element
AttrNames(el) ==
  {el.attrs[j].name : j \in {x \in DOMAIN el.attrs : el.attrs[x].type = "JSXAttribute"}}

RenderStyle == {"render", "children", "component"}

(* C17: every <Formik> pattern is medium when a render, children or component
   attribute is present, else complex when validate, validateOnChange or
   validateOnBlur is present, else simple; and the complex-render reason is
   attached only to elements that have a render-prop-style attribute. *)
C17_WrapperPolicy ==
  analysis.done =>
    \A k \in DOMAIN analysis.patterns :
      LET p  == analysis.patterns[k]
          el == src.nodes[p.location]
      IN p.type = "Formik" =>
           /\ p.complexity =
                IF AttrNames(el) \cap RenderStyle # {} THEN "medium"
                ELSE IF AttrNames(el) \cap {"validate", "validateOnChange",
                                            "validateOnBlur"} # {} THEN "complex"
                ELSE "simple"
           /\ p.reason = "Complex render patterns need manual review"
                => AttrNames(el) \cap RenderStyle # {}

----------------------------------------------------------------------------
(* The codebase run: vocabulary *)

Agg == run.aggregate

\* the codebase positions of the files kept in analysis.files
KeptIndices == {run.files[f].index : f \in DOMAIN run.files}

\* one pair per Pattern of the FileAnalysis sequence handed to the aggregator
PatternPairs ==
  UNION {{<<f, k>> : k \in DOMAIN run.files[f].analysis.patterns} : f \in DOMAIN run.files}

PatternOf(pr) == run.files[pr[1]].analysis.patterns[pr[2]]

CountWhere(Test(_)) == Cardinality({pr \in PatternPairs : Test(PatternOf(pr))})

ImportsFormik(file) ==
  \E i \in DOMAIN file.nodes : IsImport(file.nodes[i]) /\ file.nodes[i].source = "formik"

\* no useFormik call and no Formik, Field, FastField or FieldArray element
NoShapes(file) ==
  /\ file.parses
  /\ \A i \in DOMAIN file.nodes :
       LET n == file.nodes[i]
       IN /\ ~(n.kind = "call" /\ n.callee = "useFormik")
          /\ ~(n.kind = "jsx" /\ n.tag \in {"Formik", "Field", "FastField", "FieldArray"})

RunEnded == run.phase \in {"crashed", "exited", "cancelled", "done"}

(* C14: the per-kind counters, the per-complexity counters and
   autoConvertible + manualReviewNeeded each sum to the number of Patterns of
   all the files aggregated, and each counter is the number of Patterns, over
   all files, of its kind. *)
C14_AggregateSums ==
  Agg.done =>
    /\ Agg.patterns.useFormik  = CountWhere(LAMBDA p : p.type = "useFormik")
    /\ Agg.patterns.Formik     = CountWhere(LAMBDA p : p.type = "Formik")
    /\ Agg.patterns.Field      = CountWhere(LAMBDA p : p.type = "Field")
    /\ Agg.patterns.FieldArray = CountWhere(LAMBDA p : p.type = "FieldArray")
    /\ Agg.patterns.other =
         CountWhere(LAMBDA p : p.type \notin {"useFormik", "Formik", "Field", "FieldArray"})
    /\ Agg.complexity.simple  = CountWhere(LAMBDA p : p.complexity = "simple")
    /\ Agg.complexity.medium  = CountWhere(LAMBDA p : p.complexity = "medium")
    /\ Agg.complexity.complex = CountWhere(LAMBDA p : p.complexity = "complex")
    /\ Agg.autoConvertible    = CountWhere(LAMBDA p : p.canAutoConvert)
    /\ Agg.manualReviewNeeded = CountWhere(LAMBDA p : ~p.canAutoConvert)
    /\ Agg.patterns.useFormik + Agg.patterns.Formik + Agg.patterns.Field
         + Agg.patterns.FieldArray + Agg.patterns.other = Cardinality(PatternPairs)
    /\ Agg.complexity.simple + Agg.complexity.medium + Agg.complexity.complex
         = Cardinality(PatternPairs)
    /\ Agg.autoConvertible + Agg.manualReviewNeeded = Cardinality(PatternPairs)

\* an aggregate over several files with a FastField and a useFormik pattern
C14_Witness ==
  /\ Agg.done
  /\ Len(run.files) >= 2
  /\ Agg.patterns.other >= 1
  /\ Agg.patterns.useFormik >= 1
  /\ Agg.manualReviewNeeded >= 1
  /\ Agg.autoConvertible >= 1

\* hundredths of an hour, rounded half up to tenths
HalfUpTenths(hundredths) == (hundredths + 5) \div 10

(* C15: estimatedHours is simple*0.25 + medium*0.5 + complex*1.5 rounded to
   one decimal and estimatedSavings is autoConvertible*0.25*0.8 +
   manualReviewNeeded*0.5*0.3 rounded to one decimal, both taken in exact
   hundredths of an hour. *)
C15_ExactEstimates ==
  Agg.done =>
    /\ Agg.estimatedHours =
         HalfUpTenths(25 * Agg.complexity.simple + 50 * Agg.complexity.medium
                        + 150 * Agg.complexity.complex)
    /\ Agg.estimatedSavings =
         HalfUpTenths(20 * Agg.autoConvertible + 15 * Agg.manualReviewNeeded)

ZeroAnalysis ==
  [hasFormik |-> FALSE, patterns |-> <<>>, linesOfCode |-> 0, estimatedEffort |-> "low"]

(* C18: for a file whose syntax tree cannot be produced analyzeFile returns
   zero patterns, hasFormik FALSE, linesOfCode 0 and effort low, and raises
   nothing; the file is left out of formikFiles and of every counter, and is
   counted in totalFiles. *)
C18_ParseFailureIsEmpty ==
  /\ \A k \in DOMAIN run.returned :
       ~codebase[k].parses =>
         /\ run.returned[k] = ZeroAnalysis
         /\ k \notin KeptIndices
  /\ (\A k \in DOMAIN codebase : codebase[k].readable) => run.phase # "crashed"
  /\ Agg.done =>
       /\ Agg.totalFiles = Len(codebase)
       /\ Agg.formikFiles =
            Cardinality({k \in DOMAIN codebase :
                           codebase[k].parses /\ ImportsFormik(codebase[k])})
       /\ \A pr \in PatternPairs : codebase[run.files[pr[1]].index].parses
       /\ Agg.autoConvertible + Agg.manualReviewNeeded = Cardinality(PatternPairs)

\* a finished conversion of a codebase that holds a file with a syntax error
C18_Witness ==
  /\ run.phase = "done"
  /\ \E k \in DOMAIN codebase : ~codebase[k].parses /\ codebase[k].lines > 0
  /\ Agg.formikFiles >= 1
  /\ Agg.totalFiles > Agg.formikFiles

(* C19: no single bad file aborts the run: whenever the run has ended, every
   file of the codebase has been analyzed and the aggregate produced, and a
   convert loop that was started has gone through every file of the analysis. *)
C19_NoFileAbortsRun ==
  RunEnded =>
    /\ run.i = Len(codebase)
    /\ Agg.done
    /\ run.phase = "done" => run.j = Len(run.files)

(* C20 as stated: a file with none of the target shapes, importing formik or
   not, has zero patterns and hasFormik FALSE, is not counted in formikFiles or
   any counter, and is never passed to the transformer. *)
C20_NoShapesNoFormik ==
  \A k \in DOMAIN run.returned :
    NoShapes(codebase[k]) =>
      /\ run.returned[k].patterns = <<>>
      /\ ~run.returned[k].hasFormik
      /\ k \notin KeptIndices
      /\ k \notin run.passed

(* C20 amended: a file with none of the target shapes has zero patterns, adds
   nothing to the pattern, complexity and convertibility counters and is never
   passed to the transformer; its hasFormik is TRUE exactly when it imports from
   formik, and exactly then it is kept in the analysis and counted in
   formikFiles. *)
C20_NoShapesNoPatterns ==
  /\ \A k \in DOMAIN run.returned :
       NoShapes(codebase[k]) =>
         /\ run.returned[k].patterns = <<>>
         /\ run.returned[k].hasFormik <=> ImportsFormik(codebase[k])
         /\ k \in KeptIndices <=> ImportsFormik(codebase[k])
         /\ k \notin run.passed
  /\ Agg.done =>
       /\ Agg.formikFiles = Cardinality(KeptIndices)
       /\ \A pr \in PatternPairs : ~NoShapes(codebase[run.files[pr[1]].index])

\* a finished conversion that went past a file importing formik without a shape
C20_Witness ==
  /\ run.phase = "done"
  /\ run.converted >= 1
  /\ \E k \in KeptIndices : NoShapes(codebase[k]) /\ k \notin run.passed

\* the content the file at position k holds now
DiskNow(k) == DiskAfter(run.fsLog, k, codebase[k].nodes)

NothingWritten ==
  /\ run.fsLog = <<>>
  /\ run.written = {}
  /\ run.backedUp = {}
  /\ \A k \in DOMAIN codebase : DiskNow(k) = codebase[k].nodes

(* C21: in a convert run with --dry-run no source file and no .backup file is
   written, whatever the outcome of each transformation, and no confirmation
   is requested. *)
C21_DryRunWritesNothing ==
  options.dryRun =>
    /\ NothingWritten
    /\ ~run.prompted
    /\ run.phase \notin {"prompting", "cancelled"}

\* a finished dry run that counted a converted file and a skipped one
C21_Witness ==
  /\ options.dryRun
  /\ ~options.yes
  /\ run.phase = "done"
  /\ run.converted >= 1
  /\ run.skipped >= 1
  /\ \E k \in run.passed : transformFile(codebase[k]).convertedCode # codebase[k].nodes

(* C22: with --backup and without --dry-run every overwrite of a file is
   preceded by a write of <file>.backup holding the file's original content,
   and a file whose transformation fails or throws gets neither a backup nor
   an overwrite. *)
C22_BackupBeforeOverwrite ==
  (options.backup /\ ~options.dryRun) =>
    /\ \A p \in DOMAIN run.fsLog :
         run.fsLog[p].op = "write" =>
           \E b \in 1..(p - 1) :
             /\ run.fsLog[b].op = "backup"
             /\ run.fsLog[b].index = run.fsLog[p].index
             /\ run.fsLog[b].content = codebase[run.fsLog[p].index].nodes
    /\ \A p \in DOMAIN run.fsLog :
         LET file == codebase[run.fsLog[p].index]
         IN /\ ~file.vanishes
            /\ transformFile(file).success
    /\ \A k \in DOMAIN codebase :
         (\E p \in DOMAIN run.fsLog : run.fsLog[p].index = k) <=> k \in run.written
    /\ run.written = run.backedUp

\* a finished run that backed up and overwrote a file and skipped a failed one
C22_Witness ==
  /\ options.backup /\ ~options.dryRun
  /\ run.phase = "done"
  /\ \E k \in run.written : DiskNow(k) # codebase[k].nodes
  /\ \E k \in run.passed : k \notin run.written /\ ~codebase[k].vanishes
  /\ \E k \in run.passed : k \notin run.written /\ codebase[k].vanishes

NothingTransformed == run.passed = {} /\ run.converted = 0 /\ NothingWritten

(* C23: without --yes and without --dry-run no file is transformed or written
   before the user has confirmed, and a declined prompt ends the run with no
   file written; when the analysis reports zero auto-convertible patterns the
   run ends without transforming or writing any file. *)
C23_ConfirmationGates ==
  /\ (~options.yes /\ ~options.dryRun /\ ~run.confirmed) => NothingTransformed
  /\ (~options.yes /\ ~options.dryRun /\ run.phase \in {"converting", "done"}) =>
       run.prompted /\ run.confirmed
  /\ run.phase = "cancelled" => (run.prompted /\ ~run.confirmed /\ NothingTransformed)
  /\ run.phase = "exited" => NothingTransformed
  /\ (Agg.done /\ Agg.autoConvertible = 0) =>
       (run.phase \in {"aggregated", "exited"} /\ NothingTransformed)

\* the prompt was shown over a convertible codebase and answered no
C23_Witness ==
  /\ run.phase = "cancelled"
  /\ ~options.yes /\ ~options.dryRun
  /\ Agg.autoConvertible >= 1
  /\ \E k \in KeptIndices : transformFile(codebase[k]).success

\* the Field elements of the file that the result returns as input elements
RewrittenFields ==
  {i \in DOMAIN src.nodes : FieldAt(i) /\ Out[i].tag = "input"}

(* C25: in every successful ConversionResult the number of 'Converted <Field>
   to native input with register()' entries equals the number of Field
   elements rewritten to input; a skipped element has no change entry. *)
C25_ChangeLogFaithful ==
  (result.returned /\ result.success) =>
    Count(result.changes, FieldChange) = Cardinality(RewrittenFields)

(* C26: estimatedSavings never exceeds estimatedHours, so the time with the
   tool, estimatedHours - estimatedSavings, is never negative. *)
C26_SavingsWithinHours ==
  Agg.done =>
    /\ Agg.estimatedSavings <= Agg.estimatedHours
    /\ Agg.estimatedHours - Agg.estimatedSavings >= 0

\* an aggregate with savings from both convertible and manual-review patterns
C26_Witness ==
  /\ Agg.done
  /\ Agg.autoConvertible >= 1
  /\ Agg.manualReviewNeeded >= 1
  /\ Agg.estimatedSavings >= 1
  /\ Agg.estimatedHours > Agg.estimatedSavings

(* C24: rendering reports does not alter the analysis: after any sequence of
   console, JSON, Markdown and HTML reports the analysis, the order of its
   files sequence included, is the one analyzeCodebase returned. *)
C24_ReportsKeepAnalysis ==
  run.phase = "reporting" =>
    /\ run.files = analyzeCodebase(codebase).files
    /\ Agg = analyzeCodebase(codebase).aggregate

(* C27: the auto-convertible percentage of the HTML report is a whole number
   between 0 and 100 for every analysis, also when files import formik and
   hold no pattern. *)
C27_PercentageInRange ==
  \A v \in DOMAIN run.rendered :
    run.rendered[v].kind = "html" =>
      /\ ~run.rendered[v].autoPercentage.nan
      /\ run.rendered[v].autoPercentage.value \in 0..100

----------------------------------------------------------------------------
(* Watch mode *)

\* a relevant change has been delivered and no analysis started after it has
\* been reported yet
ChangeOwed == watch.unserved \/ watch.serving

(* C28: watch mode loses no change: after a relevant file-change event
   delivered to a watcher that is not stopped, an analysis started after the
   event eventually completes and is reported through onChange or onError,
   unless the watcher is stopped first. *)
C28_NoChangeLost == ChangeOwed ~> (~ChangeOwed \/ watch.stopped)

\* an analysis started by the timer after a change has been reported
C28_Witness ==
  /\ ~watch.stopped
  /\ ~ChangeOwed
  /\ watch.events >= 2
  /\ \E r \in DOMAIN watch.reports : watch.reports[r].origin = "timer"

(* C29: at most one analysis is in progress at any time; isAnalyzing is TRUE
   exactly while a run is in progress and FALSE again once the run completed
   or failed; a failed run is reported through onError, a completed one
   through onChange. *)
C29_OneAnalysisAtATime ==
  /\ watch.running \in {0, 1}
  /\ watch.isAnalyzing <=> watch.running = 1
  /\ watch.isAnalyzing <=> watch.inFlight.active
  /\ \A r \in DOMAIN watch.reports :
       /\ watch.reports[r].outcome = "throws" => watch.reports[r].via = "onError"
       /\ watch.reports[r].outcome = "ok" => watch.reports[r].via = "onChange"

\* a failed analysis reported through onError, then a later one through onChange
C29_Witness ==
  /\ ~watch.isAnalyzing
  /\ \E r1, r2 \in DOMAIN watch.reports :
       /\ r1 < r2
       /\ watch.reports[r1].origin # "watchDir"
       /\ watch.reports[r1].via = "onError"
       /\ watch.reports[r2].origin = "timer"
       /\ watch.reports[r2].via = "onChange"

(* C30: after stop() no new analysis starts and neither onChange nor onError
   is invoked again, whatever was pending at the moment of the call. *)
C30_SilentAfterStop ==
  /\ watch.startsAfterStop = 0
  /\ watch.callsAfterStop = 0
  /\ watch.stopped => watch.debounceTimer # "pending"

====
